---- MODULE Spec2Model ----
(***************************************************************************)
(* Model of expense_tracker.py: the SQLite-backed store ExpenseTrackerDB   *)
(* (tables categories and expenses, sqlite_sequence for AUTOINCREMENT) and *)
(* the Tkinter layer ExpenseTrackerApp that drives it.                     *)
(*                                                                         *)
(* Text values are TLA+ strings; Bytes gives the characters of every text  *)
(* the model uses, so that SQLite's text comparison (ORDER BY), str.strip, *)
(* float() and datetime.strptime are computed from the characters.         *)
(* A Python float is a record [nan, v]: v is the value in whole units.     *)
(***************************************************************************)
EXTENDS Integers, Sequences, FiniteSets, TLC

VARIABLES
    conn,             \* self.conn is not None (the connection was opened)
    closed,           \* self.conn.close() has been called on it
    categories,       \* table categories: set of [id, name]
    expenses,         \* table expenses: set of [id, amount, category_id, date, description]
    sqlite_sequence,  \* AUTOINCREMENT bookkeeping: largest rowid ever used per table
    call,             \* the store call made by the last step, with its return value
    running,          \* the Tk main loop is alive (master not destroyed)
    expense_tree,     \* rows of the Treeview, top to bottom
    focus,            \* expense_tree.focus(): position of the focused row, 0 for ''
    category_values,  \* category_dropdown['values']
    ui                \* the last user action: handler, field contents, dialog answer

db == <<categories, expenses, sqlite_sequence>>
gui == <<running, expense_tree, focus, category_values, ui>>
vars == <<conn, closed, categories, expenses, sqlite_sequence, call,
          running, expense_tree, focus, category_values, ui>>

\* Largest expense rowid a run allocates.
MaxExpenseId == 2

-----------------------------------------------------------------------------
\* Texts and their characters

default_categories ==
    <<"Food", "Transport", "Utilities", "Rent", "Shopping", "Entertainment",
      "Salary", "Other">>

\* The characters of every text the model uses
TextBytes ==
    ("" :> <<>>)
    @@ ("  " :> <<32, 32>>)
    @@ ("Food" :> <<70, 111, 111, 100>>)
    @@ ("Transport" :> <<84, 114, 97, 110, 115, 112, 111, 114, 116>>)
    @@ ("Utilities" :> <<85, 116, 105, 108, 105, 116, 105, 101, 115>>)
    @@ ("Rent" :> <<82, 101, 110, 116>>)
    @@ ("Shopping" :> <<83, 104, 111, 112, 112, 105, 110, 103>>)
    @@ ("Entertainment" :>
           <<69, 110, 116, 101, 114, 116, 97, 105, 110, 109, 101, 110, 116>>)
    @@ ("Salary" :> <<83, 97, 108, 97, 114, 121>>)
    @@ ("Other" :> <<79, 116, 104, 101, 114>>)
    @@ ("Pets" :> <<80, 101, 116, 115>>)
    @@ ("Lunch" :> <<76, 117, 110, 99, 104>>)
    @@ ("abc" :> <<97, 98, 99>>)
    @@ ("nan" :> <<110, 97, 110>>)
    @@ ("-5" :> <<45, 53>>)
    @@ ("0" :> <<48>>)
    @@ ("20" :> <<50, 48>>)
    @@ ("2024-01-10" :> <<50, 48, 50, 52, 45, 48, 49, 45, 49, 48>>)
    @@ ("2024-01-12" :> <<50, 48, 50, 52, 45, 48, 49, 45, 49, 50>>)
    @@ ("2024-1-5" :> <<50, 48, 50, 52, 45, 49, 45, 53>>)
    @@ ("2024-02-30" :> <<50, 48, 50, 52, 45, 48, 50, 45, 51, 48>>)

Texts == DOMAIN TextBytes

Bytes(s) == TextBytes[s]

\* The text whose characters are b.
FromBytes(b) == CHOOSE t \in Texts : Bytes(t) = b

IsSpace(c) == c \in {9, 10, 11, 12, 13, 32}
IsDigit(c) == c \in 48..57

RECURSIVE LStrip(_)
LStrip(b) == IF b # <<>> /\ IsSpace(Head(b)) THEN LStrip(Tail(b)) ELSE b

RECURSIVE RStrip(_)
RStrip(b) ==
    IF b # <<>> /\ IsSpace(b[Len(b)]) THEN RStrip(SubSeq(b, 1, Len(b) - 1)) ELSE b

\* str.strip(), computed once for every text
StripOf == [t \in Texts |-> FromBytes(RStrip(LStrip(Bytes(t))))]

strip(s) == StripOf[s]

\* a < b for two texts, byte by byte (SQLite's BINARY collation, Python's str <)
RECURSIVE BytesLess(_, _)
BytesLess(a, b) ==
    IF b = <<>> THEN FALSE
    ELSE IF a = <<>> THEN TRUE
    ELSE IF Head(a) # Head(b) THEN Head(a) < Head(b)
    ELSE BytesLess(Tail(a), Tail(b))

TextLess(s, t) == BytesLess(Bytes(s), Bytes(t))

AllDigits(b) == b # <<>> /\ \A i \in 1..Len(b) : IsDigit(b[i])

RECURSIVE DigitsValue(_)
DigitsValue(b) ==
    IF b = <<>> THEN 0 ELSE 10 * DigitsValue(SubSeq(b, 1, Len(b) - 1)) + (b[Len(b)] - 48)

\* float(s): [ok |-> FALSE] is ValueError. Whole numbers with an optional sign, and
\* nan, are the numerals the model's texts hold.
ParseFloat(s) ==
    LET b == RStrip(LStrip(Bytes(s)))
        signed == b # <<>> /\ Head(b) \in {43, 45}
        body == IF signed THEN Tail(b) ELSE b
        lower == [i \in 1..Len(body) |->
                     IF body[i] \in 65..90 THEN body[i] + 32 ELSE body[i]]
    IN  IF lower = <<110, 97, 110>>
        THEN [ok |-> TRUE, nan |-> TRUE, v |-> 0]
        ELSE IF AllDigits(body)
        THEN [ok |-> TRUE, nan |-> FALSE,
              v |-> IF signed /\ Head(b) = 45 THEN 0 - DigitsValue(body)
                    ELSE DigitsValue(body)]
        ELSE [ok |-> FALSE, nan |-> FALSE, v |-> 0]

FloatOf == [t \in Texts |-> ParseFloat(t)]

float(s) == FloatOf[s]

IsLeap(y) == (y % 4 = 0 /\ y % 100 # 0) \/ y % 400 = 0

DaysInMonth(y, m) ==
    IF m = 2 THEN (IF IsLeap(y) THEN 29 ELSE 28)
    ELSE IF m \in {4, 6, 9, 11} THEN 30 ELSE 31

\* The positions of '-' in b.
Dashes(b) == {i \in 1..Len(b) : b[i] = 45}

\* datetime.datetime.strptime(s, '%Y-%m-%d'): [ok |-> FALSE] is ValueError.
\* %Y takes four digits, %m and %d one or two; the day must exist in the month.
ParseDate(s) ==
    LET b == Bytes(s)
        bad == [ok |-> FALSE, y |-> 0, m |-> 0, d |-> 0]
    IN  IF Cardinality(Dashes(b)) # 2 THEN bad
        ELSE
          LET i == CHOOSE k \in Dashes(b) : \A l \in Dashes(b) : k <= l
              j == CHOOSE k \in Dashes(b) : \A l \in Dashes(b) : l <= k
              ys == SubSeq(b, 1, i - 1)
              ms == SubSeq(b, i + 1, j - 1)
              ds == SubSeq(b, j + 1, Len(b))
          IN  IF /\ AllDigits(ys) /\ Len(ys) = 4
                 /\ AllDigits(ms) /\ Len(ms) \in 1..2
                 /\ AllDigits(ds) /\ Len(ds) \in 1..2
                 /\ DigitsValue(ms) \in 1..12
                 /\ DigitsValue(ds) \in 1..DaysInMonth(DigitsValue(ys), DigitsValue(ms))
              THEN [ok |-> TRUE, y |-> DigitsValue(ys), m |-> DigitsValue(ms),
                    d |-> DigitsValue(ds)]
              ELSE bad

DateOf == [t \in Texts |-> ParseDate(t)]

strptime(s) == DateOf[s]

-----------------------------------------------------------------------------
\* The store: ExpenseTrackerDB

\* _get_category_id's None; rowids start at 1.
NoId == 0
\* None where a row, a list or a dict is expected
None == <<>>

Max(a, b) == IF a >= b THEN a ELSE b

SetMax(S) == IF S = {} THEN 0 ELSE CHOOSE x \in S : \A y \in S : y <= x

\* The rowid an AUTOINCREMENT table gives its next row: one more than the largest
\* rowid it ever held.
NextRowid(table, seq) == Max(seq, SetMax({r.id : r \in table})) + 1

\* The connection can execute statements: it was opened and not closed since. A
\* statement on a closed connection raises sqlite3.ProgrammingError, an sqlite3.Error.
Usable == conn /\ ~closed

\* A Python float that holds the whole number v
Num(v) == [nan |-> FALSE, v |-> v]

Call(op, expense_id, amount, category_name, date, description, ret) ==
    [op |-> op, expense_id |-> expense_id, amount |-> amount,
     category_name |-> category_name, date |-> date, description |-> description,
     ret |-> ret]

NoCall == Call("none", NoId, Num(0), "", "", "", "None")

\* Variant: a plain INSERT into a table whose name column is not UNIQUE.
InsertCategoryAgain(t, name) ==
    LET id == NextRowid(t.rows, t.seq)
    IN  [rows |-> t.rows \cup {[id |-> id, name |-> name]}, seq |-> id]

\* INSERT OR IGNORE INTO categories (name) VALUES (?): name is UNIQUE.
InsertOrIgnoreCategory(t, name) ==
    IF \E c \in t.rows : c.name = name THEN t
    ELSE LET id == NextRowid(t.rows, t.seq)
         IN  [rows |-> t.rows \cup {[id |-> id, name |-> name]}, seq |-> id]

RECURSIVE InsertCategories(_, _, _)
InsertCategories(t, names, i) ==
    IF i > Len(names) THEN t
    ELSE InsertCategories(InsertOrIgnoreCategory(t, names[i]), names, i + 1)

\* The categories table and its sequence after _insert_default_categories.
insert_default_categories(rows, seq) ==
    InsertCategories([rows |-> rows, seq |-> seq], default_categories, 1)

\* _create_tables on an open connection: CREATE TABLE IF NOT EXISTS keeps the
\* rows of a table that exists; then the default categories are seeded.
create_tables ==
    LET t == insert_default_categories(categories, sqlite_sequence.categories)
    IN  /\ categories' = t.rows
        /\ sqlite_sequence' = [sqlite_sequence EXCEPT !.categories = t.seq]
        /\ UNCHANGED expenses

\* ExpenseTrackerDB(): _connect, which succeeds (ok) or fails, then _create_tables.
init(ok) ==
    /\ conn' = ok
    /\ closed' = FALSE
    /\ IF ok THEN create_tables ELSE UNCHANGED db

get_category_id(category_name) ==
    LET result == {c \in categories : c.name = category_name}
    IN  IF result # {} THEN (CHOOSE c \in result : TRUE).id ELSE NoId

\* Variant: add_expense without the `category_id is None` return; the row is
\* inserted with a NULL category_id.
add_expense_unchecked(amount, category_name, date, description) ==
    LET failed == /\ call' = Call("add_expense", NoId, amount, category_name, date,
                                  description, "False")
                  /\ UNCHANGED db
        category_id == get_category_id(category_name)
        id == NextRowid(expenses, sqlite_sequence.expenses)
    IN  IF ~conn THEN failed
        ELSE IF closed THEN failed
        ELSE IF amount.nan THEN failed
        ELSE /\ expenses' = expenses \cup
                    {[id |-> id, amount |-> amount.v, category_id |-> category_id,
                      date |-> date, description |-> description]}
             /\ sqlite_sequence' = [sqlite_sequence EXCEPT !.expenses = id]
             /\ UNCHANGED categories
             /\ call' = Call("add_expense", NoId, amount, category_name, date,
                             description, "True")

add_expense(amount, category_name, date, description) ==
    LET failed == /\ call' = Call("add_expense", NoId, amount, category_name, date,
                                  description, "False")
                  /\ UNCHANGED db
        category_id == get_category_id(category_name)
        id == NextRowid(expenses, sqlite_sequence.expenses)
    IN  IF ~conn THEN failed
        ELSE IF closed THEN failed                       \* sqlite3.Error
        ELSE IF category_id = NoId THEN failed
        ELSE IF amount.nan THEN failed                   \* NaN binds as NULL: NOT NULL
        ELSE /\ expenses' = expenses \cup
                    {[id |-> id, amount |-> amount.v, category_id |-> category_id,
                      date |-> date, description |-> description]}
             /\ sqlite_sequence' = [sqlite_sequence EXCEPT !.expenses = id]
             /\ UNCHANGED categories
             /\ call' = Call("add_expense", NoId, amount, category_name, date,
                             description, "True")

\* Variant: the UPDATE without its WHERE id = ?, writing every row.
update_expense_every_row(expense_id, amount, category_name, date, description) ==
    LET category_id == get_category_id(category_name)
    IN  IF ~Usable \/ category_id = NoId \/ amount.nan
        THEN /\ call' = Call("update_expense", expense_id, amount, category_name, date,
                             description, "False")
             /\ UNCHANGED db
        ELSE /\ expenses' = {[e EXCEPT !.amount = amount.v, !.category_id = category_id,
                                       !.date = date, !.description = description] :
                                e \in expenses}
             /\ UNCHANGED <<categories, sqlite_sequence>>
             /\ call' = Call("update_expense", expense_id, amount, category_name, date,
                             description, "True")

\* Variant: update_expense without the `if category_id is None` return, writing the
\* unresolved id.
update_expense_unresolved(expense_id, amount, category_name, date, description) ==
    LET category_id == get_category_id(category_name)
    IN  /\ expenses' = {IF e.id = expense_id
                        THEN [e EXCEPT !.amount = amount.v, !.category_id = category_id,
                                       !.date = date, !.description = description]
                        ELSE e : e \in expenses}
        /\ UNCHANGED <<categories, sqlite_sequence>>
        /\ call' = Call("update_expense", expense_id, amount, category_name, date,
                        description, "True")

update_expense(expense_id, amount, category_name, date, description) ==
    LET failed == /\ call' = Call("update_expense", expense_id, amount, category_name,
                                  date, description, "False")
                  /\ UNCHANGED db
        category_id == get_category_id(category_name)
    IN  IF ~conn THEN failed
        ELSE IF closed THEN failed                       \* sqlite3.Error
        ELSE IF category_id = NoId THEN failed
        ELSE IF amount.nan /\ \E e \in expenses : e.id = expense_id
        THEN failed                                      \* NaN binds as NULL: NOT NULL
        ELSE /\ expenses' =
                    {IF e.id = expense_id
                     THEN [e EXCEPT !.amount = amount.v, !.category_id = category_id,
                                    !.date = date, !.description = description]
                     ELSE e : e \in expenses}
             /\ UNCHANGED <<categories, sqlite_sequence>>
             /\ call' = Call("update_expense", expense_id, amount, category_name,
                             date, description, "True")

\* Variant: DELETE FROM expenses without the WHERE clause.
delete_expense_all(expense_id) ==
    IF ~conn
    THEN /\ call' = Call("delete_expense", expense_id, Num(0), "", "", "", "False")
         /\ UNCHANGED db
    ELSE IF closed
    THEN /\ call' = Call("delete_expense", expense_id, Num(0), "", "", "", "[]")
         /\ UNCHANGED db
    ELSE /\ expenses' = {}
         /\ UNCHANGED <<categories, sqlite_sequence>>
         /\ call' = Call("delete_expense", expense_id, Num(0), "", "", "", "True")

delete_expense(expense_id) ==
    IF ~conn
    THEN /\ call' = Call("delete_expense", expense_id, Num(0), "", "", "", "False")
         /\ UNCHANGED db
    ELSE IF closed                                       \* sqlite3.Error: return []
    THEN /\ call' = Call("delete_expense", expense_id, Num(0), "", "", "", "[]")
         /\ UNCHANGED db
    ELSE /\ expenses' = {e \in expenses : e.id # expense_id}
         /\ UNCHANGED <<categories, sqlite_sequence>>
         /\ call' = Call("delete_expense", expense_id, Num(0), "", "", "", "True")

\* Python's truth value of what a store call returned
Truthy(ret) == ret = "True"

close ==
    /\ closed' = (closed \/ conn)
    /\ UNCHANGED <<conn, db>>

-----------------------------------------------------------------------------
\* The store's queries, on the store `self` as it stands when they run. An omitted
\* filter (None) is "": `if start_date:` treats both alike.

Self == [conn |-> conn, closed |-> closed, categories |-> categories,
         expenses |-> expenses]

\* expenses e JOIN categories c ON e.category_id = c.id, as the selected columns
\* (e.id, e.amount, c.name, e.date, e.description)
Joined(self) ==
    {<<p[1].id, p[1].amount, p[2].name, p[1].date, p[1].description>> :
        p \in {q \in self.expenses \X self.categories : q[1].category_id = q[2].id}}

\* Variant: ORDER BY e.date ASC.
BeforeAscending(r, q) == TextLess(r[4], q[4]) \/ (q[4] = r[4] /\ r[1] < q[1])

\* ORDER BY e.date DESC: row r comes before row q. Rows of one date come in rowid
\* order, the order the scan of expenses produces them in.
Before(r, q) == TextLess(q[4], r[4]) \/ (q[4] = r[4] /\ r[1] < q[1])

RECURSIVE OrderBy(_)
OrderBy(rows) ==
    IF rows = {} THEN <<>>
    ELSE LET first == CHOOSE r \in rows : \A q \in rows \ {r} : Before(r, q)
         IN  <<first>> \o OrderBy(rows \ {first})

\* Variant: get_expenses without the `if not self.conn` return, reading the file.
get_expenses_unguarded(self, start_date, end_date, category_name) ==
    OrderBy({r \in Joined(self) :
               /\ start_date # "" => ~TextLess(r[4], start_date)
               /\ end_date # "" => ~TextLess(end_date, r[4])
               /\ category_name # "" => r[3] = category_name})

get_expenses(self, start_date, end_date, category_name) ==
    IF ~self.conn THEN <<>>
    ELSE IF self.closed THEN <<>>                        \* sqlite3.Error
    ELSE OrderBy({r \in Joined(self) :
                    /\ start_date # "" => ~TextLess(r[4], start_date)
                    /\ end_date # "" => ~TextLess(end_date, r[4])
                    /\ category_name # "" => r[3] = category_name})

get_expense_by_id(self, expense_id) ==
    IF ~self.conn THEN None
    ELSE IF self.closed THEN None                        \* sqlite3.Error
    ELSE LET found == {r \in Joined(self) : r[1] = expense_id}
         IN  IF found = {} THEN None ELSE CHOOSE r \in found : TRUE

RECURSIVE OrderByName(_)
OrderByName(names) ==
    IF names = {} THEN <<>>
    ELSE LET first == CHOOSE n \in names : \A m \in names \ {n} : TextLess(n, m)
         IN  <<first>> \o OrderByName(names \ {first})

get_categories(self) ==
    IF ~self.conn THEN <<>>
    ELSE IF self.closed THEN <<>>                        \* sqlite3.Error
    ELSE OrderByName({c.name : c \in self.categories})

RECURSIVE SumAmount(_)
SumAmount(rows) ==
    IF rows = {} THEN 0
    ELSE LET r == CHOOSE x \in rows : TRUE IN r[2] + SumAmount(rows \ {r})

\* Variant: categories LEFT JOIN expenses, a key for every category.
get_spending_by_category_outer(self, start_date, end_date) ==
    IF ~self.conn THEN <<>>
    ELSE IF self.closed THEN <<>>
    ELSE LET rows == {r \in Joined(self) :
                        /\ start_date # "" => ~TextLess(r[4], start_date)
                        /\ end_date # "" => ~TextLess(end_date, r[4])}
         IN  [name \in {c.name : c \in self.categories} |->
                 SumAmount({r \in rows : r[3] = name})]

\* The dict {name: SUM(amount)}, as a function on the names that have a row.
get_spending_by_category(self, start_date, end_date) ==
    IF ~self.conn THEN <<>>
    ELSE IF self.closed THEN <<>>                        \* sqlite3.Error
    ELSE LET rows == {r \in Joined(self) :
                        /\ start_date # "" => ~TextLess(r[4], start_date)
                        /\ end_date # "" => ~TextLess(end_date, r[4])}
         IN  [name \in {r[3] : r \in rows} |->
                 SumAmount({r \in rows : r[3] = name})]

-----------------------------------------------------------------------------
\* The presentation layer: ExpenseTrackerApp

Ui(handler, amount_str, category_name, date_str, selected, confirm) ==
    [handler |-> handler, amount_str |-> amount_str, category_name |-> category_name,
     date_str |-> date_str, selected |-> selected, confirm |-> confirm]

NoUi == Ui("none", "", "", "", FALSE, "not asked")

\* _validate_input: [is_valid, message]
validate_input(amount_str, category_name, date_str) ==
    LET amount == float(amount_str)
        no(message) == [is_valid |-> FALSE, message |-> message]
    IN  IF strip(amount_str) = "" THEN no("Amount cannot be empty.")
        ELSE IF ~amount.ok THEN no("Amount must be a valid number (e.g., 100 or 50.75).")
        ELSE IF ~amount.nan /\ amount.v <= 0         \* nan <= 0 is False
        THEN no("Amount must be a positive number.")
        ELSE IF strip(category_name) = ""
        THEN no("Category cannot be empty. Please select one.")
        ELSE IF strip(date_str) = "" THEN no("Date cannot be empty.")
        ELSE IF ~strptime(date_str).ok THEN no("Date format must be YYYY-MM-DD.")
        ELSE [is_valid |-> TRUE, message |-> ""]

\* Variant: update_expense_list that leaves the Treeview as it is.
update_expense_list_skipped == UNCHANGED <<expense_tree, focus>>

\* update_expense_list: the rows are deleted (the focus goes with them) and the
\* result of get_expenses() is inserted, read from the store as the step leaves it.
update_expense_list ==
    /\ expense_tree' = get_expenses(Self', "", "", "")
    /\ focus' = 0

\* clear_entries: the fields are emptied; load_categories_to_dropdown re-reads the names.
clear_entries == category_values' = get_categories(Self')

\* The handler returns without calling the store.
NoStoreCall ==
    /\ call' = NoCall
    /\ UNCHANGED <<db, expense_tree, focus, category_values>>

\* What the form's fields hold when a button is pressed: the amount, date and
\* description entries are free text; the category is a read-only dropdown over
\* category_values, '' while there are none.
add_expense_gui(amount_entry, category_var, date_entry, description_entry) ==
    LET amount_str == strip(amount_entry)
        category_name == strip(category_var)
        date_str == strip(date_entry)
        description == strip(description_entry)
        v == validate_input(amount_str, category_name, date_str)
        amount == [nan |-> float(amount_str).nan, v |-> float(amount_str).v]
    IN  /\ running
        /\ ui' = Ui("add_expense_gui", amount_str, category_name, date_str, FALSE,
                    "not asked")
        /\ UNCHANGED <<conn, closed, running>>
        /\ IF ~v.is_valid THEN NoStoreCall
           ELSE /\ add_expense(amount, category_name, date_str, description)
                /\ IF Truthy(call'.ret)
                   THEN update_expense_list /\ clear_entries
                   ELSE UNCHANGED <<expense_tree, focus, category_values>>

update_expense_gui(amount_entry, category_var, date_entry, description_entry, answer) ==
    LET selected_item == focus
        expense_id == expense_tree[selected_item][1]
        amount_str == strip(amount_entry)
        category_name == strip(category_var)
        date_str == strip(date_entry)
        description == strip(description_entry)
        v == validate_input(amount_str, category_name, date_str)
        amount == [nan |-> float(amount_str).nan, v |-> float(amount_str).v]
    IN  /\ running
        /\ UNCHANGED <<conn, closed, running>>
        /\ IF selected_item = 0
           THEN /\ ui' = Ui("update_expense_gui", "", "", "", FALSE, "not asked")
                /\ NoStoreCall
           ELSE IF ~v.is_valid
           THEN /\ ui' = Ui("update_expense_gui", amount_str, category_name, date_str,
                            TRUE, "not asked")
                /\ NoStoreCall
           ELSE /\ ui' = Ui("update_expense_gui", amount_str, category_name, date_str,
                            TRUE, IF answer THEN "yes" ELSE "no")
                /\ IF ~answer THEN NoStoreCall
                   ELSE /\ update_expense(expense_id, amount, category_name, date_str,
                                          description)
                        /\ IF Truthy(call'.ret)
                           THEN update_expense_list /\ clear_entries
                           ELSE UNCHANGED <<expense_tree, focus, category_values>>

\* Variant: delete_expense_gui without the askyesno test.
delete_expense_gui_unconfirmed(answer) ==
    LET selected_item == focus
        expense_id == expense_tree[selected_item][1]
    IN  /\ running
        /\ UNCHANGED <<conn, closed, running>>
        /\ IF selected_item = 0
           THEN /\ ui' = Ui("delete_expense_gui", "", "", "", FALSE, "not asked")
                /\ NoStoreCall
           ELSE /\ ui' = Ui("delete_expense_gui", "", "", "", TRUE,
                            IF answer THEN "yes" ELSE "no")
                /\ delete_expense(expense_id)
                /\ IF Truthy(call'.ret)
                   THEN update_expense_list /\ clear_entries
                   ELSE UNCHANGED <<expense_tree, focus, category_values>>

delete_expense_gui(answer) ==
    LET selected_item == focus
        expense_id == expense_tree[selected_item][1]
    IN  /\ running
        /\ UNCHANGED <<conn, closed, running>>
        /\ IF selected_item = 0
           THEN /\ ui' = Ui("delete_expense_gui", "", "", "", FALSE, "not asked")
                /\ NoStoreCall
           ELSE /\ ui' = Ui("delete_expense_gui", "", "", "", TRUE,
                            IF answer THEN "yes" ELSE "no")
                /\ IF ~answer THEN NoStoreCall
                   ELSE /\ delete_expense(expense_id)
                        /\ IF Truthy(call'.ret)
                           THEN update_expense_list /\ clear_entries
                           ELSE UNCHANGED <<expense_tree, focus, category_values>>

\* The user clicks row i: it takes the focus and <<TreeviewSelect>> runs
\* load_selected_expense_to_entries, which fills the fields from the row.
load_selected_expense_to_entries(i) ==
    /\ running
    /\ i \in 1..Len(expense_tree)
    /\ UNCHANGED <<conn, closed, db, running, expense_tree>>
    /\ focus' = i
    /\ clear_entries
    /\ ui' = Ui("load_selected_expense_to_entries", "", "", "", TRUE, "not asked")
    /\ call' = NoCall

\* Variant: on_closing without the askokcancel test, quitting on either answer.
on_closing_unasked(answer) ==
    /\ running
    /\ ui' = Ui("on_closing", "", "", "", FALSE, IF answer THEN "yes" ELSE "no")
    /\ close
    /\ running' = FALSE
    /\ call' = Call("close", NoId, Num(0), "", "", "", "None")
    /\ UNCHANGED <<expense_tree, focus, category_values>>

on_closing(answer) ==
    /\ running
    /\ ui' = Ui("on_closing", "", "", "", FALSE, IF answer THEN "yes" ELSE "no")
    /\ IF answer
       THEN close /\ running' = FALSE /\ call' = Call("close", NoId, Num(0), "", "", "", "None")
       ELSE UNCHANGED <<conn, closed, db, running>> /\ call' = NoCall
    /\ UNCHANGED <<expense_tree, focus, category_values>>

-----------------------------------------------------------------------------
\* Specifications

\* Arguments the store is called with
Amounts == {Num(20), Num(50)}
CategoryNames == {"Food", "Rent", "Pets"}
Dates == {"2024-01-10", "2024-01-12"}
Descriptions == {"Lunch"}
ExpenseIds == 1..(MaxExpenseId + 1)
\* The arguments of an update: those of an add, and one that empties the description
UpdateArguments ==
    (Amounts \X CategoryNames \X Dates \X Descriptions)
        \cup {<<Num(50), "Rent", "2024-01-12", "">>}

\* What the user types and picks
AmountEntries == {"", "  ", "abc", "nan", "-5", "0", "20"}
DateEntries == {"", "2024-02-30", "2024-01-10", "2024-1-5"}
DescriptionEntries == {"Lunch"}
CategoryChoices ==
    IF category_values = <<>> THEN {""}
    ELSE {category_values[i] : i \in 1..Len(category_values)} \cap {"Food", "Rent"}

\* ExpenseTrackerDB() on a database file that does not exist yet
InitStore ==
    LET t == insert_default_categories({}, 0)
    IN  /\ conn \in BOOLEAN
        /\ closed = FALSE
        /\ categories = IF conn THEN t.rows ELSE {}
        /\ expenses = {}
        /\ sqlite_sequence = [categories |-> IF conn THEN t.seq ELSE 0, expenses |-> 0]
        /\ call = NoCall

\* The store alone, called by any client
Init ==
    /\ InitStore
    /\ running = FALSE
    /\ expense_tree = <<>>
    /\ focus = 0
    /\ category_values = <<>>
    /\ ui = NoUi

\* A later start on the same file: ExpenseTrackerDB() again
Construct ==
    \E ok \in BOOLEAN :
        /\ init(ok)
        /\ call' = Call("init", NoId, Num(0), "", "", "", "None")
        /\ UNCHANGED gui

CallAddExpense ==
    \E amount \in Amounts, category_name \in CategoryNames, date \in Dates,
       description \in Descriptions :
        /\ sqlite_sequence.expenses < MaxExpenseId
        /\ add_expense(amount, category_name, date, description)
        /\ UNCHANGED <<conn, closed, gui>>

CallUpdateExpense ==
    \E expense_id \in ExpenseIds, a \in UpdateArguments :
        /\ update_expense(expense_id, a[1], a[2], a[3], a[4])
        /\ UNCHANGED <<conn, closed, gui>>

CallDeleteExpense ==
    \E expense_id \in ExpenseIds :
        /\ delete_expense(expense_id)
        /\ UNCHANGED <<conn, closed, gui>>

CallClose ==
    /\ close
    /\ call' = Call("close", NoId, Num(0), "", "", "", "None")
    /\ UNCHANGED gui

Next ==
    \/ Construct
    \/ CallAddExpense
    \/ CallUpdateExpense
    \/ CallDeleteExpense
    \/ CallClose

Spec == Init /\ [][Next]_vars

\* The application: ExpenseTrackerApp() on a new file, then the user's actions
AppInit ==
    /\ InitStore
    /\ running = TRUE
    /\ expense_tree = get_expenses(Self, "", "", "")
    /\ focus = 0
    /\ category_values = get_categories(Self)
    /\ ui = NoUi

PressAdd ==
    \E amount_entry \in AmountEntries, category_var \in CategoryChoices,
       date_entry \in DateEntries, description_entry \in DescriptionEntries :
        /\ sqlite_sequence.expenses < MaxExpenseId
        /\ add_expense_gui(amount_entry, category_var, date_entry, description_entry)

PressUpdate ==
    \E amount_entry \in AmountEntries, category_var \in CategoryChoices,
       date_entry \in DateEntries, description_entry \in DescriptionEntries,
       answer \in BOOLEAN :
        update_expense_gui(amount_entry, category_var, date_entry, description_entry,
                           answer)

PressDelete == \E answer \in BOOLEAN : delete_expense_gui(answer)

ClickRow == \E i \in 1..Len(expense_tree) : load_selected_expense_to_entries(i)

CloseWindow == \E answer \in BOOLEAN : on_closing(answer)

AppNext ==
    \/ PressAdd
    \/ PressUpdate
    \/ PressDelete
    \/ ClickRow
    \/ CloseWindow

AppSpec == AppInit /\ [][AppNext]_vars

-----------------------------------------------------------------------------
\* Properties of the store (checked under Spec)

Range(seq) == {seq[i] : i \in 1..Len(seq)}

\* A date text as a calendar day, for comparing dates as dates
DateKey(date) == strptime(date).y * 10000 + strptime(date).m * 100 + strptime(date).d

SortedByDateDesc(rows) ==
    \A i, j \in 1..Len(rows) : i < j => DateKey(rows[i][4]) >= DateKey(rows[j][4])

\* C1: update_expense returns failure whenever no expense has the id, and whenever
\* the category name does not resolve; in both cases the stored expenses are unchanged.
C1_UpdateUnknownFails ==
    [][(/\ call'.op = "update_expense"
        /\ \/ ~\E e \in expenses : e.id = call'.expense_id
           \/ get_category_id(call'.category_name) = NoId)
       => (~Truthy(call'.ret) /\ expenses' = expenses)]_vars

\* C2: add_expense with a category name that get_categories() does not list returns
\* failure and leaves the number of rows of get_expenses(), and the stored expenses,
\* unchanged.
C2_AddUnknownCategoryRejected ==
    [][(/\ call'.op = "add_expense"
        /\ call'.category_name \notin Range(get_categories(Self)))
       => (/\ ~Truthy(call'.ret)
           /\ Len(get_expenses(Self', "", "", "")) = Len(get_expenses(Self, "", "", ""))
           /\ expenses' = expenses)]_vars

\* An add of the unknown category was refused by a store that holds expenses.
C2_Witness ==
    /\ Usable
    /\ expenses # {}
    /\ call.op = "add_expense"
    /\ call.category_name = "Pets"
    /\ ~Truthy(call.ret)

C4_DeleteThenAbsent ==
    [][call'.op = "delete_expense"
       => (/\ get_expense_by_id(Self', call'.expense_id) = None
           /\ Usable => Truthy(call'.ret)
           /\ Usable => ~\E e \in expenses' : e.id = call'.expense_id
           /\ expenses' \subseteq expenses
           /\ \A e \in expenses : e.id # call'.expense_id => e \in expenses'
           /\ categories' = categories)]_vars

\* A delete of an id that was allocated and is gone succeeded, with another row kept.
C4_Witness ==
    /\ Usable
    /\ call.op = "delete_expense"
    /\ Truthy(call.ret)
    /\ call.expense_id <= sqlite_sequence.expenses
    /\ expenses # {}
    /\ get_expense_by_id(Self, call.expense_id) = None

\* The name of the category an expense row refers to
CategoryNameOf(e) == (CHOOSE c \in categories : c.id = e.category_id).name

RECURSIVE TotalAmount(_)
TotalAmount(es) ==
    IF es = {} THEN 0
    ELSE LET e == CHOOSE x \in es : TRUE IN e.amount + TotalAmount(es \ {e})

\* C5: get_spending_by_category() maps each category name to the sum of the amounts of
\* the stored expenses of that category, and has no key for a category without expenses.
C5_SpendingIsSumPerCategory ==
    Usable =>
        LET spending == get_spending_by_category(Self, "", "")
            used == {c \in categories : \E e \in expenses : e.category_id = c.id}
        IN  /\ DOMAIN spending = {c.name : c \in used}
            /\ \A c \in used :
                  spending[c.name] = TotalAmount({e \in expenses : e.category_id = c.id})

\* Food 50 and Food 20 are stored: the report is {Food: 70}.
C5_Witness ==
    /\ Usable
    /\ {<<CategoryNameOf(e), e.amount>> : e \in expenses} = {<<"Food", 50>>, <<"Food", 20>>}
    /\ get_spending_by_category(Self, "", "") = [name \in {"Food"} |-> 70]

\* C6: every run of the initialization leaves one row per default category name, so
\* get_categories() lists the same eight names, and leaves the expenses as they are.
C6_InitIdempotent ==
    /\ [](conn =>
            /\ Cardinality(categories) = Len(default_categories)
            /\ {c.name : c \in categories} = Range(default_categories)
            /\ Usable =>
                  /\ Len(get_categories(Self)) = Len(default_categories)
                  /\ Range(get_categories(Self)) = Range(default_categories))
    /\ [][call'.op = "init" =>
            /\ expenses' = expenses
            /\ conn => categories' = categories]_vars

\* The store was constructed again on a file that holds expenses.
C6_Witness ==
    /\ call.op = "init"
    /\ conn
    /\ expenses # {}
    /\ Len(get_categories(Self)) = Len(default_categories)

\* C10: after a failed connection every operation is a no-op with its failure or
\* empty result: add, update and delete return False, get_expenses and get_categories
\* [], get_expense_by_id None, get_spending_by_category {}, and close does nothing.
C10_DegradedStore ==
    [][/\ call'.op # "init" => conn' = conn
       /\ (~conn /\ call'.op # "init") => (db' = db /\ closed' = closed)
       /\ ~conn' =>
             /\ get_expenses(Self', "", "", "") = <<>>
             /\ get_categories(Self') = <<>>
             /\ \A id \in ExpenseIds : get_expense_by_id(Self', id) = None
             /\ get_spending_by_category(Self', "", "") = <<>>
             /\ call'.op \in {"add_expense", "update_expense", "delete_expense"}
                   => call'.ret = "False"]_vars

\* The connection failed on a file that holds expenses, and an add was refused.
C10_Witness ==
    /\ ~conn
    /\ expenses # {}
    /\ call.op = "add_expense"
    /\ call.ret = "False"

-----------------------------------------------------------------------------
\* Properties of the presentation layer (checked under AppSpec)

\* A decimal numeral: an optional sign and digits
IsNumeral(s) ==
    LET b == Bytes(s)
        body == IF b # <<>> /\ Head(b) \in {43, 45} THEN Tail(b) ELSE b
    IN  AllDigits(body)

\* YYYY-MM-DD, four, two and two digits, naming a day of the calendar
IsIsoDate(s) ==
    LET b == Bytes(s)
    IN  /\ Len(b) = 10
        /\ b[5] = 45 /\ b[8] = 45
        /\ \A i \in {1, 2, 3, 4, 6, 7, 9, 10} : IsDigit(b[i])
        /\ DigitsValue(SubSeq(b, 6, 7)) \in 1..12
        /\ DigitsValue(SubSeq(b, 9, 10)) \in
              1..DaysInMonth(DigitsValue(SubSeq(b, 1, 4)), DigitsValue(SubSeq(b, 6, 7)))

\* The input the add and update handlers are to refuse
RefusedInput(amount_str, category_name, date_str) ==
    \/ amount_str = ""
    \/ ~IsNumeral(amount_str)
    \/ float(amount_str).v <= 0
    \/ category_name = ""
    \/ category_name \notin Range(category_values)
    \/ ~IsIsoDate(date_str)

\* C7: on add and on update, when the amount is empty, not a number or not above 0, or
\* the category is empty or not a loaded name, or the date is not a real YYYY-MM-DD
\* date, the store's add_expense and update_expense are not called and the store is
\* unchanged.
C7_InvalidInputNeverReachesStore ==
    [][(/\ ui'.handler \in {"add_expense_gui", "update_expense_gui"}
        /\ RefusedInput(ui'.amount_str, ui'.category_name, ui'.date_str))
       => (call'.op = "none" /\ db' = db)]_vars

\* C8: update_expense and delete_expense of the store are called only from a handler
\* that found a selected row and got a yes from the confirmation dialog; with no
\* selected row, or on a no, the store is not called and is unchanged.
C8_SelectionAndConfirmation ==
    [][/\ call'.op \in {"update_expense", "delete_expense"}
          => (/\ focus # 0
              /\ ui'.selected
              /\ ui'.confirm = "yes"
              /\ ui'.handler = (IF call'.op = "update_expense" THEN "update_expense_gui"
                                ELSE "delete_expense_gui")
              /\ call'.expense_id = expense_tree[focus][1])
       /\ (/\ ui'.handler \in {"update_expense_gui", "delete_expense_gui"}
           /\ (focus = 0 \/ ui'.confirm # "yes"))
          => (call'.op = "none" /\ db' = db)]_vars

\* The user declined the confirmation of a delete: the store was not called.
C8_Witness ==
    /\ ui.handler = "delete_expense_gui"
    /\ ui.selected
    /\ ui.confirm = "no"
    /\ call.op = "none"
    /\ expenses # {}

\* C9: after every user action, the store called or not, the call failed or not, the
\* rows of the expense list are the result of get_expenses() on the store as it is.
C9_ListShowsStore == running => expense_tree = get_expenses(Self, "", "", "")

\* The store refused an add while the list was showing rows.
C9_Witness ==
    /\ running
    /\ ui.handler = "add_expense_gui"
    /\ call.op = "add_expense"
    /\ ~Truthy(call.ret)
    /\ expense_tree # <<>>

-----------------------------------------------------------------------------
\* Properties of the stored expenses as the application leaves them

\* The filter values a client passes to get_expenses; "" is an omitted filter
FilterDates == {"", "2024-01-10"}
FilterCategories == {"", "Food", "Rent"}

\* The stored expenses inside the calendar range and of the category asked for
Satisfying(start_date, end_date, category_name) ==
    {e \in expenses :
        /\ start_date # "" => DateKey(e.date) >= DateKey(start_date)
        /\ end_date # "" => DateKey(e.date) <= DateKey(end_date)
        /\ category_name # "" => CategoryNameOf(e) = category_name}

\* C11: get_expenses(start_date, end_date, category_name) returns exactly the stored
\* expenses whose date is on or after start_date, on or before end_date and whose
\* category name is category_name, an omitted filter excluding nothing, and the rows
\* are in descending order of date.
C11_FiltersAndOrder ==
    Usable =>
        \A start_date \in FilterDates, end_date \in FilterDates,
           category_name \in FilterCategories :
            LET rows == get_expenses(Self, start_date, end_date, category_name)
            IN  /\ Range(rows) =
                      {<<e.id, e.amount, CategoryNameOf(e), e.date, e.description>> :
                          e \in Satisfying(start_date, end_date, category_name)}
                /\ Len(rows) = Cardinality(Satisfying(start_date, end_date, category_name))
                /\ SortedByDateDesc(rows)

\* C12: whatever store operations were called, every stored expense refers to a row
\* of categories, so on an open connection every stored expense is a row of
\* get_expenses() and is returned by get_expense_by_id().
C12_NoDanglingCategory ==
    /\ \A e \in expenses : \E c \in categories : c.id = e.category_id
    /\ Usable =>
          \A e \in expenses :
              /\ \E r \in Range(get_expenses(Self, "", "", "")) : r[1] = e.id
              /\ get_expense_by_id(Self, e.id) # None
              /\ get_expense_by_id(Self, e.id)[1] = e.id

\* An update moved an expense to another category and a later update to an unknown
\* category was refused: both stored expenses are listed.
C12_Witness ==
    /\ Usable
    /\ call.op = "update_expense"
    /\ call.category_name = "Pets"
    /\ ~Truthy(call.ret)
    /\ {CategoryNameOf(e) : e \in expenses} = {"Food", "Rent"}
    /\ Len(get_expenses(Self, "", "", "")) = 2

\* C13: close() of the store is called only by on_closing after an OK from the quit
\* dialog, at most once (it ends the run), and no handler and no store operation runs
\* after it; on Cancel the store is not called, the connection stays as it was and the
\* application keeps running.
C13_CloseOnQuit ==
    /\ [](closed => ~running)
    /\ [](~running => call.op = "close")
    /\ [][/\ running
          /\ call'.op = "close"
                => (ui'.handler = "on_closing" /\ ui'.confirm = "yes")
          /\ (ui'.handler = "on_closing" /\ ui'.confirm = "yes")
                => (/\ call'.op = "close"
                    /\ ~running'
                    /\ closed' = conn
                    /\ db' = db)
          /\ (ui'.handler = "on_closing" /\ ui'.confirm = "no")
                => (/\ call'.op = "none"
                    /\ running'
                    /\ ~closed'
                    /\ conn' = conn
                    /\ db' = db)
          /\ ui'.handler # "on_closing" => (running' /\ ~closed')]_vars

\* The user confirmed quitting with expenses stored: the connection is closed and the
\* application has ended.
C13_Witness ==
    /\ ui.handler = "on_closing"
    /\ ui.confirm = "yes"
    /\ call.op = "close"
    /\ closed
    /\ ~running
    /\ expenses # {}

\* C14: an update_expense that returns success for an id that is stored keeps the ids
\* and the number of the expenses, writes the amount, category, date and description
\* given to the expense of that id, and leaves every other expense, the categories
\* and the id counters as they were; add_expense leaves every stored expense as it
\* was and adds at most one; delete_expense removes no expense of another id and
\* changes none.
C14_OnlyTheNamedExpense ==
    [][/\ (/\ call'.op = "update_expense"
           /\ Truthy(call'.ret)
           /\ \E e \in expenses : e.id = call'.expense_id)
          => (/\ {e.id : e \in expenses'} = {e.id : e \in expenses}
              /\ Cardinality(expenses') = Cardinality(expenses)
              /\ \A e \in expenses : e.id # call'.expense_id => e \in expenses'
              /\ \E e \in expenses' :
                    /\ e.id = call'.expense_id
                    /\ e.amount = call'.amount.v
                    /\ e.category_id = get_category_id(call'.category_name)
                    /\ e.date = call'.date
                    /\ e.description = call'.description
              /\ categories' = categories
              /\ sqlite_sequence' = sqlite_sequence)
       /\ call'.op = "add_expense"
          => (/\ expenses \subseteq expenses'
              /\ Cardinality(expenses' \ expenses) = (IF Truthy(call'.ret) THEN 1 ELSE 0)
              /\ categories' = categories)
       /\ call'.op = "delete_expense"
          => (/\ expenses' \subseteq expenses
              /\ \A e \in expenses \ expenses' : e.id = call'.expense_id
              /\ categories' = categories)]_vars

\* An update rewrote all four fields of one expense, emptying its description, and the
\* other expense still has the fields it was added with.
C14_Witness ==
    /\ call.op = "update_expense"
    /\ Truthy(call.ret)
    /\ call.description = ""
    /\ \E e \in expenses :
          /\ e.id = call.expense_id
          /\ e.amount = 50
          /\ CategoryNameOf(e) = "Rent"
          /\ e.date = "2024-01-12"
          /\ e.description = ""
    /\ \E e \in expenses :
          /\ e.id # call.expense_id
          /\ e.amount = 20
          /\ CategoryNameOf(e) = "Food"
          /\ e.date = "2024-01-10"
          /\ e.description = "Lunch"

====
